---- MODULE Spec2Model ----
(***************************************************************************)
(* Fleet Control desktop client: the vehicle detail screen with its three  *)
(* server-backed tables (maintenance, purchases, hidden costs), the add    *)
(* forms opened from it and the navigation of the main window between      *)
(* them.  Workers are modelled as requests in flight whose outcome is      *)
(* chosen when it is delivered to the screen.                              *)
(***************************************************************************)
EXTENDS Integers, Sequences, FiniteSets, TLC

VARIABLES
  screen,            \* MainWindow.stacked_widget: the screen shown
  selected_vehicle,  \* VehicleSelectionScreen.selected_vehicle
  current_vehicle,   \* MainWindow.current_vehicle
  details,           \* MainWindow.vehicle_details_screen is not None
  table,             \* maint_table / purch_table / hidden_costs_table: rows of cell texts
  data,              \* maintenance_data / purchases_data / hidden_costs_data
  sel,               \* selected row of each table (0: none), rows counted from 1
  selected,          \* selected_maintenance / selected_purchase / selected_hidden_cost
  tracking_type,     \* VehicleDetailsScreen.tracking_type
  tracking_header,   \* header label of the tracking column of maint_table
  pending,           \* fetch workers in flight, connected to the detail screen
  mutating,          \* the update / delete workers in flight, in the order they were started
  forms,             \* the add forms of the main window
  crashed,           \* a handler raised: the process has ended
  stocked,           \* the resource the service holds records of for the vehicle
  ev,                \* the handler that ran last, what it showed and what it sent
  q_rec, q_keys, q_out,  \* a function applied on its own: its arguments and its result
  vehicle_list,      \* VehicleSelectionScreen.vehicle_list: the items of the list widget
  vehicles,          \* VehicleSelectionScreen.vehicles
  fetch_worker,      \* VehicleFetchWorker threads in flight
  settings_file,     \* settings.json
  settings,          \* SettingsScreen.settings
  dark_mode_checkbox,  \* SettingsScreen.dark_mode_checkbox.isChecked()
  current_theme,     \* the stylesheet the application carries: "light" or "dark"
  fetches            \* the fetches of a table told apart: started, in flight, answered

vars == <<screen, selected_vehicle, current_vehicle, details, table, data, sel,
          selected, tracking_type, tracking_header, pending, mutating, forms,
          crashed, stocked, ev, q_rec, q_keys, q_out, vehicle_list, vehicles,
          fetch_worker, settings_file, settings, dark_mode_checkbox, current_theme,
          fetches>>

-----------------------------------------------------------------------------
(* Bounds of the model *)

MaxPending == 1      \* fetch workers in flight per table
MaxMutating == 2     \* update / delete workers in flight
MaxSubmitting == 1   \* submit workers in flight, over the add forms
MaxNameLen == 3      \* characters of a vehicle name
MaxFetches == 2      \* fetches of one table started on one detail screen, where they are told apart

-----------------------------------------------------------------------------
(* JSON values as Python sees them after resp.json() *)

StrV(s) == [t |-> "str", s |-> s]
NumV(s) == [t |-> "num", s |-> s]          \* s: the number as Python prints it
NullV == [t |-> "null", s |-> ""]

\* str(x)
str(v) == IF v.t = "null" THEN "None" ELSE v.s

\* bool(x) of a scalar, as the operands of `or` are tested
truthy(v) ==
  CASE v.t = "null" -> FALSE
    [] v.t = "str" -> v.s # ""
    [] OTHER -> v.s \notin {"0", "0.0"}

\* A list element: a mapping (dict) or a bare scalar
Dict(m) == [d |-> TRUE, m |-> m, v |-> NullV]
Scalar(v) == [d |-> FALSE, m |-> <<>>, v |-> v]
None == Scalar(NullV)

\* bool(item): `if not self.selected_maintenance`
item_truthy(item) == IF item.d THEN DOMAIN item.m # {} ELSE truthy(item.v)

\* `"id" not in item` raises TypeError on None and on numbers
contains_raises(item) == ~item.d /\ item.v.t \in {"null", "num"}

\* `key in item` for a dict, and for a string (substring test)
RECURSIVE is_substring(_, _)
is_substring(k, s) ==
  IF Len(s) < Len(k) THEN FALSE
  ELSE IF SubSeq(s, 1, Len(k)) = k THEN TRUE
  ELSE is_substring(k, Tail(s))

contains(item, key) ==
  IF item.d THEN key \in DOMAIN item.m ELSE is_substring(key, item.v.s)

-----------------------------------------------------------------------------
(* Record normalizer *)

RECURSIVE get_any_mut_first_present(_, _, _)
get_any_mut_first_present(d, keys, default) ==
  IF keys = <<>> THEN default
  ELSE IF Head(keys) \in DOMAIN d THEN d[Head(keys)]
  ELSE get_any_mut_first_present(d, Tail(keys), default)

RECURSIVE get_any(_, _, _)
get_any(d, keys, default) ==
  IF keys = <<>> THEN default
  ELSE IF Head(keys) \in DOMAIN d /\ d[Head(keys)] # NullV THEN d[Head(keys)]
  ELSE get_any(d, Tail(keys), default)

\* rec = item if isinstance(item, dict) else {}
as_rec(item) == IF item.d THEN item.m ELSE <<>>

IdKeys == <<"id", "_id">>
JobKeys == <<"job", "title", "task">>
HourKeys == <<"hours", "hour", "engine_hours">>
MileageKeys == <<"mileage", "miles", "milage", "odometer">>
NameKeys == <<"name", "title", "item_name">>

Empty == StrV("")

-----------------------------------------------------------------------------
(* What the service may answer *)

Tables == {"maintenance", "purchases", "hidden_costs"}

JList(elems) == [list |-> TRUE, elems |-> elems]
JObj(obj) == [list |-> FALSE, obj |-> obj]

H1 == Dict(("id" :> StrV("1")) @@ ("job" :> StrV("Oil change"))
           @@ ("title" :> StrV("Service")) @@ ("hours" :> NumV("120")))
M1 == Dict(("id" :> StrV("2")) @@ ("job" :> StrV("Tires"))
           @@ ("odometer" :> NumV("45000")))
N1 == Dict(("job" :> StrV("Wash")) @@ ("notes" :> NullV))
S5 == Scalar(NumV("5"))
P1 == Dict(("id" :> StrV("7")) @@ ("item" :> StrV("Oil Filter"))
           @@ ("installed" :> StrV("Yes")) @@ ("cost" :> StrV("12.50")))
P2 == Dict(("name" :> StrV("Wiper")) @@ ("price" :> NumV("8")))
HC1 == Dict(("id" :> NumV("3")) @@ ("name" :> StrV("Toll")) @@ ("amount" :> NumV("4.5")))
SA == Scalar(StrV("abc"))

Bodies(t) ==
  CASE t = "maintenance" ->
         {JList(<<>>), JList(<<H1>>), JList(<<M1, H1>>), JList(<<N1>>),
          JList(<<S5>>)}
    [] t = "purchases" -> {JList(<<>>), JList(<<P1, P2>>), JObj(P1)}
    [] OTHER -> {JList(<<>>), JList(<<HC1>>), JList(<<SA>>)}

\* fewer answers, where the add forms are explored as well
FewAnswers(t) ==
  IF t = stocked THEN {JList(<<>>), JList(<<H1>>)} ELSE {JList(<<>>)}

\* str(e) of the exception a request ends with
Exceptions == {"timed out"}

VA == Dict(("name" :> StrV("Big Rig.1")) @@ ("id" :> StrV("v1")))
VB == Dict(("name" :> StrV("loader")))

-----------------------------------------------------------------------------
(* Vehicle name normalization: .replace(" ", "_").replace(".", "_").lower() *)

RECURSIVE replace(_, _, _)
replace(s, old, new) ==
  IF s = "" THEN ""
  ELSE (IF Head(s) = old THEN new ELSE Head(s)) \o replace(Tail(s), old, new)


lower_char(c) ==
  LET Upper == <<"A","B","C","D","E","F","G","H","I","J","K","L","M",
                 "N","O","P","Q","R","S","T","U","V","W","X","Y","Z">>
      Lower == <<"a","b","c","d","e","f","g","h","i","j","k","l","m",
                 "n","o","p","q","r","s","t","u","v","w","x","y","z">>
  IN IF \E i \in 1..26 : Upper[i] = c
     THEN Lower[CHOOSE i \in 1..26 : Upper[i] = c]
     ELSE c

RECURSIVE lower(_)
lower(s) == IF s = "" THEN "" ELSE lower_char(Head(s)) \o lower(Tail(s))

normalized(name) == lower(replace(replace(name, " ", "_"), ".", "_"))

-----------------------------------------------------------------------------
(* QTableWidget *)

Columns(t) ==
  CASE t = "maintenance" -> 7
    [] t = "purchases" -> 6
    [] OTHER -> 5

\* setRowCount(n): rows beyond n are removed, missing rows are added without items
setRowCount(rows, n, t) ==
  IF n <= Len(rows) THEN SubSeq(rows, 1, n)
  ELSE rows \o [i \in 1..(n - Len(rows)) |-> [c \in 1..Columns(t) |-> ""]]

\* setItem(row, col, QTableWidgetItem(text)), rows and columns counted from 1
setItem(rows, r, c, text) == [rows EXCEPT ![r][c] = text]

\* the selection that is left when the table shrinks to n rows
selection_after(s, n) == IF s > n THEN 0 ELSE s

\* the single row that setRowCount(1); setItem(0, 0, text) leaves
info_row(rows, text, t) == setItem(setRowCount(rows, 1, t), 1, 1, text)

-----------------------------------------------------------------------------
(* Rendering of the fetched records *)

\* get_any(rec, hour aliases) or get_any(rec, mileage aliases)
tracking_value(rec) ==
  LET h == get_any(rec, HourKeys, Empty)
  IN IF truthy(h) THEN h ELSE get_any(rec, MileageKeys, Empty)

maintenance_row(item) ==
  LET rec == as_rec(item)
  IN << str(get_any(rec, IdKeys, Empty)),
        str(get_any(rec, JobKeys, Empty)),
        str(get_any(rec, <<"date_started", "started", "start_date">>, Empty)),
        str(get_any(rec, <<"date_completed", "completed", "end_date">>, Empty)),
        str(tracking_value(rec)),
        str(get_any(rec, <<"cost", "price", "amount">>, Empty)),
        str(get_any(rec, <<"notes", "note", "details">>, Empty)) >>

purchase_row_mut_no_item_key(item) ==
  LET rec == as_rec(item)
  IN << str(get_any(rec, IdKeys, Empty)),
        str(get_any(rec, <<"name", "part">>, Empty)),
        str(get_any(rec, <<"date_purchased", "purchased", "date">>, Empty)),
        str(get_any(rec, <<"installed", "is_installed", "status">>, Empty)),
        str(get_any(rec, <<"cost", "price", "amount">>, Empty)),
        str(get_any(rec, <<"store", "vendor", "shop">>, Empty)) >>

purchase_row(item) ==
  LET rec == as_rec(item)
  IN << str(get_any(rec, IdKeys, Empty)),
        str(get_any(rec, <<"item", "name", "part">>, Empty)),
        str(get_any(rec, <<"date_purchased", "purchased", "date">>, Empty)),
        str(get_any(rec, <<"installed", "is_installed", "status">>, Empty)),
        str(get_any(rec, <<"cost", "price", "amount">>, Empty)),
        str(get_any(rec, <<"store", "vendor", "shop">>, Empty)) >>

hidden_cost_row(item) ==
  LET rec == as_rec(item)
  IN << str(get_any(rec, IdKeys, Empty)),
        str(get_any(rec, NameKeys, Empty)),
        str(get_any(rec, <<"amount", "cost", "price">>, Empty)),
        str(get_any(rec, <<"description", "desc", "details">>, Empty)),
        str(get_any(rec, <<"date", "date_incurred", "created_date">>, Empty)) >>

render_row(t, item) ==
  CASE t = "maintenance" -> maintenance_row(item)
    [] t = "purchases" -> purchase_row(item)
    [] OTHER -> hidden_cost_row(item)

\* for row_idx, item in enumerate(items): insertRow(row_idx); setItem(row_idx, ...)
render_rows(t, items) == [i \in 1..Len(items) |-> render_row(t, items[i])]

LoadingText == "Loading..."

no_records_text(t) ==
  CASE t = "maintenance" -> "No maintenance records"
    [] t = "purchases" -> "No purchases"
    [] OTHER -> "No hidden costs"

\* any(key in first_item for key in aliases)
has_any_key(rec, keys) == \E i \in 1..Len(keys) : keys[i] \in DOMAIN rec

\* the tracking type the first record of a non-empty list sets ("" leaves it as it is)
inferred_tracking(items) ==
  LET first_item == as_rec(items[1])
  IN IF has_any_key(first_item, HourKeys) THEN "Hours"
     ELSE IF has_any_key(first_item, MileageKeys) THEN "Mileage"
     ELSE ""

-----------------------------------------------------------------------------
(* Requests *)

path(t) ==
  CASE t = "maintenance" -> "/fleet_control/vehicle_maintenance"
    [] t = "purchases" -> "/fleet_control/vehicle_purchases"
    [] OTHER -> "/fleet_control/vehicle_hidden_costs"

Request(method, t, query, body) ==
  [method |-> method, path |-> path(t), query |-> query, body |-> body]

\* self.vehicle["name"].replace(" ", "_").replace(".", "_").lower()
vehicle_name(vehicle) == normalized(vehicle.m["name"].s)

\* params of a fetch: the name as the vehicle carries it
fetch_params(vehicle) ==
  IF vehicle.d
  THEN (IF "name" \in DOMAIN vehicle.m
        THEN << <<"vehicle_name", vehicle.m["name"].s>> >> ELSE << >>)
  ELSE << <<"vehicle_name", str(vehicle.v)>> >>

\* load_maintenance puts the normalized name in the URL and passes params as well
load_maintenance(vehicle) ==
  Request("GET", "maintenance",
          << <<"vehicle_name", normalized(fetch_params(vehicle)[1][2])>> >>
            \o fetch_params(vehicle),
          << >>)

load_purchases(vehicle) == Request("GET", "purchases", fetch_params(vehicle), << >>)

load_hidden_costs(vehicle) == Request("GET", "hidden_costs", fetch_params(vehicle), << >>)

load_request(t, vehicle) ==
  CASE t = "maintenance" -> load_maintenance(vehicle)
    [] t = "purchases" -> load_purchases(vehicle)
    [] OTHER -> load_hidden_costs(vehicle)

load_all_mut_two_tables(vehicle) ==
  {load_request(t, vehicle) : t \in {"maintenance", "purchases"}}

\* load_maintenance(); load_purchases(); load_hidden_costs()
load_all(vehicle) == {load_request(t, vehicle) : t \in Tables}

\* MaintenanceFetchWorker.run: a body that is no list becomes a one-element list
fetch_worker_run(body) == IF body.list THEN body.elems ELSE <<body.obj>>

fetch_error_message(t, e) ==
  CASE t = "maintenance" -> "Failed to fetch maintenance: " \o e
    [] t = "purchases" -> "Failed to fetch purchases: " \o e
    [] OTHER -> "Failed to fetch hidden costs: " \o e

-----------------------------------------------------------------------------
(* What a handler shows and sends *)

NoMsg == [kind |-> "none", title |-> "", text |-> ""]
MsgBox(kind, title, text) == [kind |-> kind, title |-> title, text |-> text]

Ev(name, t, arg, msg, sent) ==
  [name |-> name, t |-> t, arg |-> arg, msg |-> msg, sent |-> sent]

\* a handler that shows nothing and sends nothing
Quiet == Ev("", "", "", NoMsg, {})

Forms == {"add_maintenance", "add_purchase", "add_hidden_cost"}

NoForm == [vehicle |-> None, tracking_type |-> "Mileage", submitting |-> 0]

\* A form that is neither shown nor waited for by a worker can no longer act
\* (the next show_add_..._form replaces it): its fields are dropped.
retire(fs, shown) ==
  [f \in Forms |-> IF shown = f \/ fs[f].submitting > 0 THEN fs[f] ELSE NoForm]

label(t) ==
  CASE t = "maintenance" -> "maintenance"
    [] t = "purchases" -> "purchase"
    [] OTHER -> "hidden cost"

-----------------------------------------------------------------------------
(* State groups *)

nav == <<screen, selected_vehicle, current_vehicle, details>>
tbl == <<table, data, sel, selected, tracking_type, tracking_header>>
wrk == <<pending, mutating>>
lst == <<vehicle_list, vehicles, fetch_worker>>
prefs == <<settings_file, settings, dark_mode_checkbox, current_theme>>
qvars == <<stocked, q_rec, q_keys, q_out, lst, prefs, fetches>>

\* the vehicle list and the settings as they are while another screen is looked at
ElsewhereIdle ==
  /\ vehicle_list = << >>
  /\ vehicles = << >>
  /\ fetch_worker = 0
  /\ settings_file = [kind |-> "absent"]
  /\ settings = Dict(<< >>)
  /\ dark_mode_checkbox = FALSE
  /\ current_theme = "light"
  /\ fetches = << >>

NoData == [has |-> FALSE, items |-> << >>]

\* the normalizer has not been applied
NotRun == [ran |-> FALSE, value |-> Empty]

\* an item of the vehicle list: its text and the vehicle it carries as user data
ListItem(text, vehicle) == [text |-> text, data |-> vehicle]

\* requests.get(".../fleet_control/vehicle_list"), without a timeout
vehicle_list_request ==
  [method |-> "GET", path |-> "/fleet_control/vehicle_list", query |-> << >>,
   body |-> << >>]

(* The vehicle selection screen as MainWindow.init_ui built it: its constructor
   called load_vehicles *)
InitSelection ==
  /\ screen = "selection"
  /\ selected_vehicle = None
  /\ current_vehicle = None
  /\ details = FALSE
  /\ table = [t \in Tables |-> << >>]
  /\ data = [t \in Tables |-> NoData]
  /\ sel = [t \in Tables |-> 0]
  /\ selected = [t \in Tables |-> None]
  /\ tracking_type = "Mileage"
  /\ tracking_header = "Tracking"
  /\ pending = [t \in Tables |-> 0]
  /\ mutating = << >>
  /\ forms = [f \in Forms |-> NoForm]
  /\ crashed = FALSE
  /\ stocked = "maintenance"
  /\ ev = Ev("load_vehicles", "", "", NoMsg, {vehicle_list_request})
  /\ q_rec = None
  /\ q_keys = << >>
  /\ q_out = NotRun
  /\ vehicle_list = <<ListItem("Loading vehicles...", None)>>
  /\ vehicles = << >>
  /\ fetch_worker = 1
  /\ settings_file = [kind |-> "absent"]
  /\ settings = Dict(<< >>)
  /\ dark_mode_checkbox = FALSE
  /\ current_theme = "light"
  /\ fetches = << >>

-----------------------------------------------------------------------------
(* Vehicle selection screen and the main window's navigation *)

\* itemClicked on item i of the list: vehicle = item.data(UserRole)
on_vehicle_selected(i) ==
  /\ ~crashed
  /\ screen = "selection"
  /\ i \in 1..Len(vehicle_list)
  /\ selected_vehicle' = vehicle_list[i].data
  /\ ev' = Quiet
  /\ UNCHANGED <<screen, current_vehicle, details, tbl, wrk, forms, crashed, qvars>>

\* self.vehicle["name"].replace(...) can be evaluated: the vehicle is a mapping
\* with a string under "name"
has_name(vehicle) ==
  vehicle.d /\ "name" \in DOMAIN vehicle.m /\ vehicle.m["name"].t = "str"

\* MainWindow.show_vehicle_details: a new VehicleDetailsScreen replaces the old one,
\* whose workers no longer reach a screen
show_vehicle_details(vehicle) ==
  /\ current_vehicle' = vehicle
  /\ details' = TRUE
  /\ table' = [t \in Tables |-> info_row(<< >>, LoadingText, t)]
  /\ data' = [t \in Tables |-> NoData]
  /\ sel' = [t \in Tables |-> 0]
  /\ selected' = [t \in Tables |-> None]
  /\ tracking_type' = "Mileage"
  /\ tracking_header' = "Tracking"
  /\ pending' = [t \in Tables |-> 1]
  /\ mutating' = << >>
  /\ screen' = "details"

\* VehicleSelectionScreen.handle_next: if self.on_next and self.selected_vehicle
\* VehicleDetailsScreen(vehicle) returns unless load_maintenance reads
\* params["vehicle_name"], which a mapping without a name never set
handle_next ==
  /\ ~crashed
  /\ screen = "selection"
  /\ item_truthy(selected_vehicle)
  /\ IF ~selected_vehicle.d \/ has_name(selected_vehicle)
     THEN /\ show_vehicle_details(selected_vehicle)
          /\ ev' = Ev("handle_next", "", "", NoMsg, load_all(selected_vehicle))
          /\ UNCHANGED crashed
     ELSE /\ current_vehicle' = selected_vehicle
          /\ crashed' = TRUE
          /\ ev' = Ev("handle_next", "", "", MsgBox("exception", "", ""), {})
          /\ UNCHANGED <<screen, details, tbl, wrk>>
  /\ UNCHANGED <<selected_vehicle, forms, qvars>>

\* Back on the detail screen
show_vehicle_selection ==
  /\ ~crashed
  /\ screen = "details"
  /\ screen' = "selection"
  /\ ev' = Quiet
  /\ UNCHANGED <<selected_vehicle, current_vehicle, details, tbl, wrk, forms, crashed, qvars>>

-----------------------------------------------------------------------------
(* Detail screen: selection *)

\* on_maintenance_selection_changed with row r selected (0: no row)
on_selection_changed(t, r) ==
  IF r # 0 /\ data[t].has
  THEN (IF 1 <= r /\ r <= Len(data[t].items) THEN data[t].items[r] ELSE None)
  ELSE None

\* the user clicks row r of a table
select_row(t, r) ==
  /\ ~crashed
  /\ screen = "details"
  /\ r \in 1..Len(table[t])
  /\ r # sel[t]
  /\ sel' = [sel EXCEPT ![t] = r]
  /\ selected' = [selected EXCEPT ![t] = on_selection_changed(t, r)]
  /\ ev' = Quiet
  /\ UNCHANGED <<nav, table, data, tracking_type, tracking_header, wrk, forms, crashed, qvars>>

\* the table shrinks to n rows: a selected row that goes away clears the selection
selected_after(t, n) ==
  IF sel[t] > n THEN on_selection_changed(t, 0) ELSE selected[t]

-----------------------------------------------------------------------------
(* Detail screen: fetch completion *)

populate_mut_resets_selections(t, items) ==
  /\ sel' = [u \in Tables |-> 0]
  /\ selected' = [u \in Tables |-> None]
  /\ IF items = << >>
     THEN /\ table' = [table EXCEPT ![t] = info_row(<< >>, no_records_text(t), t)]
          /\ UNCHANGED data
     ELSE /\ data' = [data EXCEPT ![t] = [has |-> TRUE, items |-> items]]
          /\ table' = [table EXCEPT ![t] = render_rows(t, items)]

\* setRowCount(0), the "no records" row or the rows of the records
populate(t, items) ==
  /\ sel' = [sel EXCEPT ![t] = selection_after(sel[t], 0)]
  /\ selected' = [selected EXCEPT ![t] = selected_after(t, 0)]
  /\ IF items = << >>
     THEN /\ table' = [table EXCEPT ![t] = info_row(<< >>, no_records_text(t), t)]
          /\ UNCHANGED data
     ELSE /\ data' = [data EXCEPT ![t] = [has |-> TRUE, items |-> items]]
          /\ table' = [table EXCEPT ![t] = render_rows(t, items)]

on_maintenance_loaded(items) ==
  /\ populate("maintenance", items)
  /\ IF items = << >>
     THEN UNCHANGED <<tracking_type, tracking_header>>
     ELSE LET inferred == inferred_tracking(items)
          IN /\ tracking_header' = (IF inferred = "" THEN "Tracking" ELSE inferred)
             /\ tracking_type' = (IF inferred = "" THEN tracking_type ELSE inferred)

on_purchases_loaded(items) ==
  /\ populate("purchases", items)
  /\ UNCHANGED <<tracking_type, tracking_header>>

on_hidden_costs_loaded(items) ==
  /\ populate("hidden_costs", items)
  /\ UNCHANGED <<tracking_type, tracking_header>>

on_loaded(t, items) ==
  CASE t = "maintenance" -> on_maintenance_loaded(items)
    [] t = "purchases" -> on_purchases_loaded(items)
    [] OTHER -> on_hidden_costs_loaded(items)

\* on_maintenance_error: setRowCount(1); setItem(0, 0, "Error: ...")
on_error(t, message) ==
  /\ table' = [table EXCEPT ![t] = info_row(table[t], "Error: " \o message, t)]
  /\ sel' = [sel EXCEPT ![t] = selection_after(sel[t], 1)]
  /\ selected' = [selected EXCEPT ![t] = selected_after(t, 1)]
  /\ UNCHANGED <<data, tracking_type, tracking_header>>

\* a fetch worker of the detail screen ends with finished(list)
fetch_finished(t, body) ==
  /\ ~crashed
  /\ details
  /\ pending[t] > 0
  /\ pending' = [pending EXCEPT ![t] = @ - 1]
  /\ on_loaded(t, fetch_worker_run(body))
  /\ ev' = Quiet
  /\ UNCHANGED <<nav, mutating, forms, crashed, qvars>>

fetch_failed_mut_fetches_again(t, e) ==
  /\ ~crashed
  /\ details
  /\ pending[t] > 0
  /\ pending' = pending
  /\ on_error(t, fetch_error_message(t, e))
  /\ ev' = Ev("on_error", t, fetch_error_message(t, e), NoMsg,
              {load_request(t, current_vehicle)})
  /\ UNCHANGED <<nav, mutating, forms, crashed, qvars>>

\* a fetch worker of the detail screen ends with error(message)
fetch_failed(t, e) ==
  /\ ~crashed
  /\ details
  /\ pending[t] > 0
  /\ pending' = [pending EXCEPT ![t] = @ - 1]
  /\ on_error(t, fetch_error_message(t, e))
  /\ ev' = Quiet
  /\ UNCHANGED <<nav, mutating, forms, crashed, qvars>>

\* Refresh on the detail screen
refresh_data ==
  /\ ~crashed
  /\ screen = "details"
  /\ \A t \in Tables : pending[t] < MaxPending
  /\ table' = [t \in Tables |-> info_row(table[t], LoadingText, t)]
  /\ sel' = [t \in Tables |-> selection_after(sel[t], 1)]
  /\ selected' = [t \in Tables |-> selected_after(t, 1)]
  /\ pending' = [t \in Tables |-> pending[t] + 1]
  /\ ev' = Ev("refresh_data", "", "", NoMsg, load_all(current_vehicle))
  /\ UNCHANGED <<nav, data, tracking_type, tracking_header, mutating, forms, crashed, qvars>>

-----------------------------------------------------------------------------
(* Detail screen: delete and update *)

\* the handler raised: nothing else of it took effect
raise(name, t) ==
  /\ crashed' = TRUE
  /\ ev' = Ev(name, t, "", MsgBox("exception", "", ""), {})
  /\ UNCHANGED <<nav, tbl, wrk, forms, qvars>>

\* the handler showed a warning and returned
warn(name, t, title, text) ==
  /\ ev' = Ev(name, t, "", MsgBox("warning", title, text), {})
  /\ UNCHANGED <<nav, tbl, wrk, forms, crashed, qvars>>

\* DELETE ...?vehicle_name=<name>&id=<id> with the selected record as body
delete_request(t, record) ==
  Request("DELETE", t,
          << <<"vehicle_name", vehicle_name(current_vehicle)>>,
             <<"id", str(record.m["id"])>> >>,
          record.m)

\* delete_maintenance / delete_purchase / delete_hidden_cost
delete_record(t, accepted) ==
  /\ ~crashed
  /\ screen = "details"
  /\ IF ~item_truthy(selected[t])
     THEN warn("delete", t, "No Selection",
               "Please select a " \o label(t) \o " record to delete.")
     ELSE IF contains_raises(selected[t])
     THEN raise("delete", t)
     ELSE IF ~contains(selected[t], "id")
     THEN warn("delete", t, "No ID",
               "Selected " \o label(t) \o " record does not have an ID.")
     ELSE IF ~selected[t].d
     THEN raise("delete", t)          \* DeleteConfirmDialog calls item_info.get
     ELSE IF accepted /\ ~has_name(current_vehicle)
     THEN raise("delete", t)          \* self.vehicle["name"]
     ELSE IF accepted
     THEN /\ Len(mutating) < MaxMutating
          /\ mutating' = Append(mutating, "delete")
          /\ ev' = Ev("delete", t, "", NoMsg, {delete_request(t, selected[t])})
          /\ UNCHANGED <<nav, tbl, pending, forms, crashed, qvars>>
     ELSE /\ ev' = Ev("delete", t, "", NoMsg, {})
          /\ UNCHANGED <<nav, tbl, wrk, forms, crashed, qvars>>

update_data_mut_tracking_as_hours(t, row) ==
  CASE t = "maintenance" ->
         ("id" :> StrV(row[1])) @@ ("job" :> StrV(row[2]))
         @@ ("date_started" :> StrV(row[3])) @@ ("date_completed" :> StrV(row[4]))
         @@ ("hours" :> StrV(row[5]))
         @@ ("cost" :> StrV(row[6])) @@ ("notes" :> StrV(row[7]))
    [] t = "purchases" ->
         ("id" :> StrV(row[1])) @@ ("item" :> StrV(row[2]))
         @@ ("date_purchased" :> StrV(row[3])) @@ ("installed" :> StrV(row[4]))
         @@ ("cost" :> StrV(row[5])) @@ ("store" :> StrV(row[6]))
    [] OTHER ->
         ("id" :> StrV(row[1])) @@ ("name" :> StrV(row[2]))
         @@ ("amount" :> StrV(row[3])) @@ ("description" :> StrV(row[4]))
         @@ ("date" :> StrV(row[5]))

\* the text of the cells of a row, under the names the update sends them
update_data(t, row) ==
  CASE t = "maintenance" ->
         ("id" :> StrV(row[1])) @@ ("job" :> StrV(row[2]))
         @@ ("date_started" :> StrV(row[3])) @@ ("date_completed" :> StrV(row[4]))
         @@ ((IF tracking_type = "Hours" THEN "hours" ELSE "mileage") :> StrV(row[5]))
         @@ ("cost" :> StrV(row[6])) @@ ("notes" :> StrV(row[7]))
    [] t = "purchases" ->
         ("id" :> StrV(row[1])) @@ ("item" :> StrV(row[2]))
         @@ ("date_purchased" :> StrV(row[3])) @@ ("installed" :> StrV(row[4]))
         @@ ("cost" :> StrV(row[5])) @@ ("store" :> StrV(row[6]))
    [] OTHER ->
         ("id" :> StrV(row[1])) @@ ("name" :> StrV(row[2]))
         @@ ("amount" :> StrV(row[3])) @@ ("description" :> StrV(row[4]))
         @@ ("date" :> StrV(row[5]))

\* PUT ...?vehicle_name=<name>&id=<text of the ID cell>
update_request(t, row) ==
  Request("PUT", t,
          << <<"vehicle_name", vehicle_name(current_vehicle)>>,
             <<"id", update_data(t, row)["id"].s>> >>,
          update_data(t, row))

\* update_maintenance / update_purchase / update_hidden_cost
update_record(t) ==
  /\ ~crashed
  /\ screen = "details"
  /\ IF sel[t] = 0
     THEN warn("update", t, "No Selection",
               "Please select a " \o label(t) \o " record to update.")
     ELSE IF ~data[t].has \/ sel[t] > Len(data[t].items)
     THEN warn("update", t, "Invalid Selection",
               "Selected " \o label(t) \o " record is invalid.")
     ELSE IF contains_raises(data[t].items[sel[t]])
     THEN raise("update", t)
     ELSE IF ~contains(data[t].items[sel[t]], "id")
     THEN warn("update", t, "No ID",
               "Selected " \o label(t) \o " record does not have an ID.")
     ELSE IF ~has_name(current_vehicle)
     THEN raise("update", t)          \* self.vehicle["name"]
     ELSE /\ Len(mutating) < MaxMutating
          /\ mutating' = Append(mutating, "update")
          /\ ev' = Ev("update", t, "", NoMsg, {update_request(t, table[t][sel[t]])})
          /\ UNCHANGED <<nav, tbl, pending, forms, crashed, qvars>>

worker_done_mut_drops_the_others(kind) ==
  /\ \E i \in DOMAIN mutating : mutating[i] = kind
  /\ mutating' = << >>

\* a running worker of the kind emits its signal and ends, whichever of the
\* workers of that kind it is; the other workers stay in flight
worker_done(kind) ==
  \E i \in DOMAIN mutating :
    /\ mutating[i] = kind
    /\ mutating' = SubSeq(mutating, 1, i - 1) \o SubSeq(mutating, i + 1, Len(mutating))

\* load_maintenance(); load_purchases(); load_hidden_costs() on the detail screen
reload ==
  /\ pending' = [t \in Tables |-> pending[t] + 1]
  /\ UNCHANGED tbl

on_update_success ==
  /\ ~crashed
  /\ details
  /\ \A t \in Tables : pending[t] < MaxPending
  /\ worker_done("update")
  /\ reload
  /\ ev' = Ev("on_update_success", "", "",
              MsgBox("information", "Success", "Record updated successfully!"),
              load_all(current_vehicle))
  /\ UNCHANGED <<nav, forms, crashed, qvars>>

on_delete_success ==
  /\ ~crashed
  /\ details
  /\ \A t \in Tables : pending[t] < MaxPending
  /\ worker_done("delete")
  /\ reload
  /\ ev' = Ev("on_delete_success", "", "",
              MsgBox("information", "Success", "Record deleted successfully!"),
              load_all(current_vehicle))
  /\ UNCHANGED <<nav, forms, crashed, qvars>>

show_error_mut_prefixed(message) == MsgBox("critical", "Error", "Error: " \o message)

\* QMessageBox.critical(self, "Error", message)
show_error(message) == MsgBox("critical", "Error", message)

\* UpdateWorker.run: error.emit(f"Failed to update record: {e}")
update_error_message(e) == "Failed to update record: " \o e

\* DeleteWorker.run: error.emit(f"Failed to delete: {e}")
delete_error_message(e) == "Failed to delete: " \o e

on_update_error(message) ==
  /\ ~crashed
  /\ details
  /\ worker_done("update")
  /\ ev' = Ev("on_update_error", "", message, show_error(message), {})
  /\ UNCHANGED <<nav, tbl, pending, forms, crashed, qvars>>

on_delete_error(message) ==
  /\ ~crashed
  /\ details
  /\ worker_done("delete")
  /\ ev' = Ev("on_delete_error", "", message, show_error(message), {})
  /\ UNCHANGED <<nav, tbl, pending, forms, crashed, qvars>>

-----------------------------------------------------------------------------
(* Add forms *)

Whitespace == {" ", "\t", "\n"}

RECURSIVE lstrip(_)
lstrip(s) == IF s # "" /\ Head(s) \in Whitespace THEN lstrip(Tail(s)) ELSE s

RECURSIVE rstrip(_)
rstrip(s) ==
  IF s # "" /\ SubSeq(s, Len(s), Len(s)) \in Whitespace
  THEN rstrip(SubSeq(s, 1, Len(s) - 1))
  ELSE s

\* str.strip()
strip(s) == rstrip(lstrip(s))

RECURSIVE all_digits(_)
all_digits(s) == s = "" \/ (Head(s) \in {"0", "1", "2", "3", "4", "5", "6", "7", "8", "9"} /\ all_digits(Tail(s)))

RECURSIVE index_of(_, _, _)
index_of(s, chars, i) ==
  IF i > Len(s) THEN 0
  ELSE IF SubSeq(s, i, i) \in chars THEN i
  ELSE index_of(s, chars, i + 1)

unsigned(s) == IF s # "" /\ Head(s) \in {"+", "-"} THEN Tail(s) ELSE s

\* digits with at most one point and at least one digit
is_mantissa(s) ==
  LET p == index_of(s, {"."}, 1)
  IN IF p = 0 THEN s # "" /\ all_digits(s)
     ELSE /\ all_digits(SubSeq(s, 1, p - 1))
          /\ all_digits(SubSeq(s, p + 1, Len(s)))
          /\ Len(s) > 1

\* float(s) does not raise ValueError (digit-group underscores left out)
float_parses(s) ==
  LET u == unsigned(strip(s))
      x == index_of(u, {"e", "E"}, 1)
  IN \/ lower(u) \in {"inf", "infinity", "nan"}
     \/ x = 0 /\ is_mantissa(u)
     \/ /\ x > 0
        /\ is_mantissa(SubSeq(u, 1, x - 1))
        /\ unsigned(SubSeq(u, x + 1, Len(u))) # ""
        /\ all_digits(unsigned(SubSeq(u, x + 1, Len(u))))

\* what the user may have typed into the fields of a form
Today == "11/03/2026"

form_table(f) ==
  CASE f = "add_maintenance" -> "maintenance"
    [] f = "add_purchase" -> "purchases"
    [] OTHER -> "hidden_costs"

\* show_add_maintenance_form / show_add_purchase_form / show_add_hidden_cost_form
show_add_form(f) ==
  /\ ~crashed
  /\ screen = "details"
  /\ forms' = retire([forms EXCEPT ![f] =
                         [vehicle |-> current_vehicle,
                          tracking_type |-> (IF f = "add_maintenance" /\ details
                                             THEN tracking_type ELSE "Mileage"),
                          submitting |-> 0]], f)
  /\ screen' = f
  /\ ev' = Quiet
  /\ UNCHANGED <<selected_vehicle, current_vehicle, details, tbl, wrk, crashed, qvars>>

\* MainWindow.return_to_vehicle_details
return_to_vehicle_details(name, f, msg) ==
  IF item_truthy(current_vehicle)
  THEN /\ show_vehicle_details(current_vehicle)
       /\ ev' = Ev(name, f, "", msg, load_all(current_vehicle))
  ELSE /\ ev' = Ev(name, f, "", msg, {})
       /\ UNCHANGED <<screen, current_vehicle, details, tbl, wrk>>

\* Back on an add form
form_back(f) ==
  /\ ~crashed
  /\ screen = f
  /\ return_to_vehicle_details("form_back", f, NoMsg)
  /\ forms' = retire(forms, screen')
  /\ UNCHANGED <<selected_vehicle, crashed, qvars>>

\* the data a form collects
maintenance_data(name, cost, vehicle, tracking) ==
  ("job" :> StrV(strip(name))) @@ ("date_started" :> StrV(strip(Today)))
  @@ ("date_completed" :> StrV(strip(Today))) @@ ("cost" :> StrV(strip(cost)))
  @@ ("notes" :> StrV(strip("")))
  @@ ((IF tracking = "Hours" THEN "hours" ELSE "mileage") :> StrV(strip("130")))
  @@ (IF vehicle.d
      THEN (IF "name" \in DOMAIN vehicle.m
            THEN ("vehicle_name" :> vehicle.m["name"]) ELSE << >>)
           @@ (IF "id" \in DOMAIN vehicle.m
               THEN ("vehicle_id" :> vehicle.m["id"]) ELSE << >>)
      ELSE ("vehicle_name" :> StrV(str(vehicle.v))))

purchase_data(name, cost) ==
  ("item" :> StrV(strip(name))) @@ ("date_purchased" :> StrV(strip(Today)))
  @@ ("installed" :> StrV("No")) @@ ("cost" :> StrV(strip(cost)))
  @@ ("store" :> StrV(strip("")))

hidden_cost_data(name, cost) ==
  ("name" :> StrV(strip(name))) @@ ("cost" :> StrV(strip(cost)))
  @@ ("description" :> StrV(strip(""))) @@ ("date" :> StrV(strip(Today)))

form_data(f, name, cost) ==
  CASE f = "add_maintenance" ->
         maintenance_data(name, cost, forms[f].vehicle, forms[f].tracking_type)
    [] f = "add_purchase" -> purchase_data(name, cost)
    [] OTHER -> hidden_cost_data(name, cost)

validation_mut_names_only(f, d) ==
  CASE f = "add_maintenance" ->
         IF d["job"].s = "" THEN "Job description is required" ELSE ""
    [] f = "add_purchase" ->
         IF d["item"].s = "" THEN "Item is required" ELSE ""
    [] OTHER ->
         IF d["name"].s = "" THEN "Name is required" ELSE ""

\* the warning the form's validation ends with ("" when it passes)
validation(f, d) ==
  CASE f = "add_maintenance" ->
         IF d["job"].s = "" THEN "Job description is required" ELSE ""
    [] f = "add_purchase" ->
         IF d["item"].s = "" THEN "Item is required" ELSE ""
    [] OTHER ->
         IF d["name"].s = "" THEN "Name is required"
         ELSE IF d["cost"].s = "" THEN "Cost is required"
         ELSE IF ~float_parses(d["cost"].s) THEN "Cost must be a valid number"
         ELSE ""

\* POST <path>?vehicle_name=<name> with the collected data as body
submit_request(f, d) ==
  Request("POST", form_table(f),
          << <<"vehicle_name", vehicle_name(forms[f].vehicle)>> >>, d)

RECURSIVE sum_submitting(_)
sum_submitting(fs) ==
  IF fs = {} THEN 0
  ELSE LET f == CHOOSE f \in fs : TRUE
       IN forms[f].submitting + sum_submitting(fs \ {f})

\* submit workers in flight
submitting_total == sum_submitting(Forms)

\* submit_maintenance / submit_purchase / submit_hidden_cost, with the texts
\* of the required field and of the cost field
submit(f, name, cost) ==
  /\ ~crashed
  /\ screen = f
  /\ LET d == form_data(f, name, cost)
     IN IF validation(f, d) # ""
        THEN /\ ev' = Ev("submit", f, [name |-> name, cost |-> cost],
                         MsgBox("warning", "Validation Error", validation(f, d)), {})
             /\ UNCHANGED forms
        ELSE /\ submitting_total < MaxSubmitting
             /\ forms' = [forms EXCEPT ![f].submitting = @ + 1]
             /\ ev' = Ev("submit", f, [name |-> name, cost |-> cost], NoMsg,
                         {submit_request(f, d)})
  /\ UNCHANGED <<nav, tbl, wrk, crashed, qvars>>


on_submit_success(f) ==
  /\ ~crashed
  /\ forms[f].submitting > 0
  /\ return_to_vehicle_details("on_submit_success", f,
                               MsgBox("information", "Success",
                                      CASE f = "add_maintenance" ->
                                             "Maintenance record added successfully!"
                                        [] f = "add_purchase" ->
                                             "Purchase added successfully!"
                                        [] OTHER -> "Hidden cost added successfully!"))
  /\ forms' = retire([forms EXCEPT ![f].submitting = @ - 1], screen')
  /\ UNCHANGED <<selected_vehicle, crashed, qvars>>

submit_error_message(f, e) ==
  CASE f = "add_maintenance" -> "Failed to submit maintenance: " \o e
    [] f = "add_purchase" -> "Failed to submit purchase: " \o e
    [] OTHER -> "Failed to submit hidden cost: " \o e

on_submit_error(f, message) ==
  /\ ~crashed
  /\ forms[f].submitting > 0
  /\ forms' = retire([forms EXCEPT ![f].submitting = @ - 1], screen)
  /\ ev' = Ev("on_submit_error", f, message, show_error(message), {})
  /\ UNCHANGED <<nav, tbl, wrk, crashed, qvars>>

-----------------------------------------------------------------------------

(* The detail screen of a vehicle, as MainWindow.show_vehicle_details built it *)
InitDetails ==
  /\ selected_vehicle = VA
  /\ current_vehicle = VA
  /\ details = TRUE
  /\ screen = "details"
  /\ table = [t \in Tables |-> info_row(<< >>, LoadingText, t)]
  /\ data = [t \in Tables |-> NoData]
  /\ sel = [t \in Tables |-> 0]
  /\ selected = [t \in Tables |-> None]
  /\ tracking_type = "Mileage"
  /\ tracking_header = "Tracking"
  /\ pending = [t \in Tables |-> 1]
  /\ mutating = << >>
  /\ forms = [f \in Forms |-> NoForm]
  /\ crashed = FALSE
  /\ stocked \in Tables
  /\ ev = Ev("handle_next", "", "", NoMsg, load_all(VA))
  /\ q_rec = None
  /\ q_keys = << >>
  /\ q_out = NotRun
  /\ ElsewhereIdle

Next ==
  \/ \E t \in Tables : \E r \in 1..2 : select_row(t, r)
  \/ \E t \in Tables : \E body \in (IF t = stocked THEN Bodies(t) ELSE {JList(<<>>)}) :
          fetch_finished(t, body)
  \/ \E t \in Tables : \E e \in Exceptions : fetch_failed(t, e)
  \/ refresh_data
  \/ \E t \in Tables : \E accepted \in BOOLEAN : delete_record(t, accepted)
  \/ \E t \in Tables : update_record(t)
  \/ on_update_success
  \/ on_delete_success
  \/ \E e \in Exceptions : on_update_error(update_error_message(e))
  \/ \E e \in Exceptions : on_delete_error(delete_error_message(e))

Spec == InitDetails /\ [][Next]_vars

(* The detail screen together with the add forms opened from it; rows are
   clicked in the maintenance table only *)
InitForms == InitDetails /\ stocked = "maintenance"

NextForms ==
  \/ \E r \in 1..2 : select_row(stocked, r)
  \/ \E t \in Tables : \E body \in FewAnswers(t) : fetch_finished(t, body)
  \/ \E t \in Tables : \E e \in Exceptions : fetch_failed(t, e)
  \/ refresh_data
  \/ \E t \in Tables : \E accepted \in BOOLEAN : delete_record(t, accepted)
  \/ \E t \in Tables : update_record(t)
  \/ on_update_success
  \/ on_delete_success
  \/ \E e \in Exceptions : on_update_error(update_error_message(e))
  \/ \E e \in Exceptions : on_delete_error(delete_error_message(e))
  \/ \E f \in Forms : show_add_form(f)
  \/ \E f \in Forms : form_back(f)
  \/ \E f \in Forms : \E name \in {"", " Brakes "} : \E cost \in {"", "FREE", "12.50"} :
        submit(f, name, cost)
  \/ \E f \in Forms : on_submit_success(f)
  \/ \E f \in Forms : \E e \in Exceptions :
        on_submit_error(f, submit_error_message(f, e))

SpecForms == InitForms /\ [][NextForms]_vars

-----------------------------------------------------------------------------
(* The normalizer applied on its own to one raw record and one alias list *)




InitNormalizer ==
  /\ selected_vehicle = VA
  /\ current_vehicle = VA
  /\ details = TRUE
  /\ screen = "details"
  /\ table = [t \in Tables |-> info_row(<< >>, LoadingText, t)]
  /\ data = [t \in Tables |-> NoData]
  /\ sel = [t \in Tables |-> 0]
  /\ selected = [t \in Tables |-> None]
  /\ tracking_type = "Mileage"
  /\ tracking_header = "Tracking"
  /\ pending = [t \in Tables |-> 1]
  /\ mutating = << >>
  /\ forms = [f \in Forms |-> NoForm]
  /\ crashed = FALSE
  /\ stocked = "maintenance"
  /\ ev = Quiet
  /\ q_rec \in   \* mappings over some of the keys, and records that are no mapping
       LET NormKeys == {"job", "title", "task"}
           NormValues == {NullV, StrV("a"), StrV("b"), NumV("0")}
       IN {Dict(m) : m \in UNION {[K -> NormValues] : K \in SUBSET NormKeys}}
            \cup {S5, SA, None}
  /\ q_keys \in {JobKeys, NameKeys, IdKeys}
  /\ q_out = NotRun
  /\ ElsewhereIdle

\* rec = item if isinstance(item, dict) else {}; get_any(rec, [...])
normalize ==
  /\ ~q_out.ran
  /\ q_out' = [ran |-> TRUE, value |-> get_any(as_rec(q_rec), q_keys, Empty)]
  /\ UNCHANGED <<nav, tbl, wrk, forms, crashed, stocked, ev, q_rec, q_keys, fetches, lst, prefs>>


SpecNormalizer == InitNormalizer /\ [][normalize]_vars

(* The tracking cell of one maintenance record on its own *)
InitTracking ==
  /\ selected_vehicle = VA
  /\ current_vehicle = VA
  /\ details = TRUE
  /\ screen = "details"
  /\ table = [t \in Tables |-> info_row(<< >>, LoadingText, t)]
  /\ data = [t \in Tables |-> NoData]
  /\ sel = [t \in Tables |-> 0]
  /\ selected = [t \in Tables |-> None]
  /\ tracking_type = "Mileage"
  /\ tracking_header = "Tracking"
  /\ pending = [t \in Tables |-> 1]
  /\ mutating = << >>
  /\ forms = [f \in Forms |-> NoForm]
  /\ crashed = FALSE
  /\ stocked = "maintenance"
  /\ ev = Quiet
  /\ q_rec \in {Dict(m) : m \in UNION {[K -> {NullV, NumV("0"), NumV("120")}] :
                                        K \in SUBSET {"hours", "engine_hours",
                                                      "mileage", "odometer"}}}
                 \cup {Dict(("id" :> NullV) @@ ("_id" :> StrV("9"))
                             @@ ("task" :> StrV("Belt")) @@ ("hours" :> NumV("0"))
                             @@ ("mileage" :> NumV("700"))),
                        S5}
  /\ q_keys = << >>
  /\ q_out = NotRun
  /\ ElsewhereIdle

\* on_maintenance_loaded, one pass of its loop: the item of column 4
tracking_cell ==
  /\ ~q_out.ran
  /\ q_out' = [ran |-> TRUE, value |-> maintenance_row(q_rec)[5]]
  /\ UNCHANGED <<nav, tbl, wrk, forms, crashed, stocked, ev, q_rec, q_keys, fetches, lst, prefs>>

SpecTracking == InitTracking /\ [][tracking_cell]_vars

-----------------------------------------------------------------------------
(* The states of a table *)

\* loading, empty and error are told by the text of the first cell
TableState(t) ==
  LET first_cell == table[t][1][1]
  IN IF Len(table[t]) = 0 THEN "cleared"
     ELSE IF first_cell = LoadingText THEN "loading"
     ELSE IF first_cell = no_records_text(t) THEN "empty"
     ELSE IF Len(first_cell) >= 7 /\ SubSeq(first_cell, 1, 7) = "Error: " THEN "error"
     ELSE "populated"


-----------------------------------------------------------------------------
(* Properties *)

\* C1: in every reachable state of the detail screen a populated table shows
\* exactly the rows of the stored raw-record sequence, in order, and a table
\* that shows the outcome of a fetch that delivered no records (empty, error)
\* stores no records of an earlier fetch.
C1_rows_match_stored ==
  \A t \in Tables :
    /\ TableState(t) = "populated" =>
         data[t].has /\ table[t] = render_rows(t, data[t].items)
    /\ TableState(t) \in {"empty", "error"} => data[t].items = << >>

\* C2: a table in the loading, empty or error state shows one row, selecting
\* that row resolves to no record, and Update or Delete pressed on that table
\* sends no request.
C2_info_row_inert ==
  \A t \in Tables :
    TableState(t) \in {"loading", "empty", "error"} =>
      /\ Len(table[t]) = 1
      /\ selected[t] = None
      /\ (ev.name \in {"update", "delete"} /\ ev.t = t => ev.sent = {})

\* C3: Delete pressed on a selected record without an `id` field shows a
\* warning and sends nothing (and the handler ends normally).
C3_delete_without_id_warns ==
  (ev.name = "delete" /\ selected[ev.t] # None /\ ~(selected[ev.t].d /\ "id" \in DOMAIN selected[ev.t].m)) =>
    /\ ev.msg.kind = "warning"
    /\ ev.sent = {}
    /\ ~crashed

\* C4: the normalizer returns the value of the first alias, in list order, that
\* the record holds with a non-null value, the default when there is none, and
\* the default for a record that is no mapping.
C4_first_non_null_alias ==
  q_out.ran =>
    LET rec == as_rec(q_rec)
        qualifying == {i \in 1..Len(q_keys) :
                         q_keys[i] \in DOMAIN rec /\ rec[q_keys[i]] # NullV}
    IN /\ qualifying = {} => q_out.value = Empty
       /\ qualifying # {} =>
            \E i \in qualifying :
              /\ \A j \in qualifying : i <= j
              /\ q_out.value = rec[q_keys[i]]
       /\ ~q_rec.d => q_out.value = Empty

\* C4 witness: job and title are both set and the job value came out; an alias
\* present with null was skipped elsewhere in the same run.
C4_witness ==
  /\ q_out.ran
  /\ q_keys = JobKeys
  /\ q_rec.d
  /\ {"job", "title"} \subseteq DOMAIN q_rec.m
  /\ q_rec.m["job"] = StrV("a")
  /\ q_rec.m["title"] = StrV("b")
  /\ q_out.value = StrV("a")

\* C5: while the maintenance table shows a non-empty list, the tracking type
\* and the header of the tracking column are "Hours" if the first record has
\* an hour alias and "Mileage" otherwise.
C5_tracking_follows_first_record ==
  (TableState("maintenance") = "populated" /\ data["maintenance"].has) =>
    LET first_item == as_rec(data["maintenance"].items[1])
        expected == IF has_any_key(first_item, HourKeys) THEN "Hours" ELSE "Mileage"
    IN tracking_type = expected /\ tracking_header = expected

\* C6: while the maintenance table shows the outcome of an empty list, the
\* tracking type is "Mileage".
C6_empty_list_is_mileage ==
  TableState("maintenance") = "empty" => tracking_type = "Mileage"

\* C7: when the detail screen holds a maintenance list, an Add Maintenance
\* form that submits sends the tracking value under `hours` if the first
\* record of that list has an hour alias and under `mileage` otherwise.
C7_form_tracks_vehicle ==
  (/\ ev.name = "submit"
   /\ ev.t = "add_maintenance"
   /\ ev.sent # {}
   /\ details
   /\ TableState("maintenance") = "populated"
   /\ data["maintenance"].has) =>
    LET first_item == as_rec(data["maintenance"].items[1])
        field == IF has_any_key(first_item, HourKeys) THEN "hours" ELSE "mileage"
    IN \A r \in ev.sent : field \in DOMAIN r.body

\* C8: right after a refresh and right after a successful update or delete,
\* each of the three tables is in the loading state.
C8_reload_passes_loading ==
  ev.name \in {"refresh_data", "on_update_success", "on_delete_success"} =>
    \A t \in Tables : TableState(t) = "loading"

\* C9: the handler of a successful create, update or delete sends a fetch of
\* each of the three tables for the current vehicle and leaves a fetch of each
\* table in flight on the detail screen; after a create that screen is newly
\* built and shown.
C9_success_reloads_all ==
  ev.name \in {"on_update_success", "on_delete_success", "on_submit_success"} =>
    /\ details
    /\ \A t \in Tables :
         /\ \E r \in ev.sent :
              /\ r.method = "GET"
              /\ r.path = path(t)
              /\ \E i \in 1..Len(r.query) :
                   /\ r.query[i][1] = "vehicle_name"
                   /\ r.query[i][2] \in {current_vehicle.m["name"].s,
                                          vehicle_name(current_vehicle)}
         /\ pending[t] >= 1
    /\ ev.name = "on_submit_success" =>
         /\ screen = "details"
         /\ \A t \in Tables : TableState(t) = "loading" /\ data[t] = NoData

\* C9 witness: a purchase was created and the new detail screen sent its three fetches
C9_witness ==
  /\ ev.name = "on_submit_success"
  /\ ev.t = "add_purchase"
  /\ Cardinality(ev.sent) = 3
  /\ screen = "details"

\* C10: the handler of a failed create, update or delete shows the worker's
\* message as it is, sends nothing, and leaves the screen shown, the tables,
\* the stored sequences, the selection, the tracking type and the fetches in
\* flight as they were.
C10_failure_changes_nothing ==
  [][ev'.name \in {"on_update_error", "on_delete_error", "on_submit_error"} =>
       /\ ev'.msg.kind = "critical"
       /\ ev'.msg.text = ev'.arg
       /\ ev'.sent = {}
       /\ UNCHANGED <<screen, current_vehicle, details, table, data, sel,
                      selected, tracking_type, tracking_header, pending>>]_vars

\* C10 witness: a failed create of a purchase, the form still shown
C10_witness ==
  /\ ev.name = "on_submit_error"
  /\ ev.t = "add_purchase"
  /\ ev.arg = "Failed to submit purchase: timed out"
  /\ ev.msg.text = "Failed to submit purchase: timed out"
  /\ screen = "add_purchase"

\* C11: a create request has the normalized vehicle name as its only query
\* parameter; an update or delete request has the vehicle name and the id of
\* the record as query parameters and no `id` in its body.
C11_id_in_query_only ==
  \A r \in ev.sent :
    /\ r.method = "POST" =>
         r.query = << <<"vehicle_name", vehicle_name(current_vehicle)>> >>
    /\ r.method \in {"PUT", "DELETE"} =>
         /\ Len(r.query) = 2
         /\ r.query[1] = <<"vehicle_name", vehicle_name(current_vehicle)>>
         /\ r.query[2][1] = "id"
         /\ "id" \notin DOMAIN r.body

\* C12: every request sent carries the query parameter vehicle_name exactly
\* once, and its value is the normalized name of the vehicle.
C12_normalized_name_once ==
  \A r \in ev.sent :
    LET at == {i \in 1..Len(r.query) : r.query[i][1] = "vehicle_name"}
    IN /\ Cardinality(at) = 1
       /\ \A i \in at : r.query[i][2] = vehicle_name(current_vehicle)

-----------------------------------------------------------------------------
(* The vehicle identifier computed on its own for one vehicle name *)

\* a detail screen just built, nothing else going on
ScreenIdle ==
  /\ selected_vehicle = VA
  /\ current_vehicle = VA
  /\ details = TRUE
  /\ screen = "details"
  /\ table = [t \in Tables |-> info_row(<< >>, LoadingText, t)]
  /\ data = [t \in Tables |-> NoData]
  /\ sel = [t \in Tables |-> 0]
  /\ selected = [t \in Tables |-> None]
  /\ tracking_type = "Mileage"
  /\ tracking_header = "Tracking"
  /\ pending = [t \in Tables |-> 1]
  /\ mutating = << >>
  /\ forms = [f \in Forms |-> NoForm]
  /\ crashed = FALSE
  /\ stocked = "maintenance"
  /\ ev = Quiet
  /\ ElsewhereIdle


RECURSIVE NamesOfLen(_)
NamesOfLen(n) ==
  IF n = 0 THEN {""}
  ELSE {c \o rest : c \in {"A", "b", "1", " ", ".", "_", "&"}, rest \in NamesOfLen(n - 1)}

\* the names a vehicle of the list may carry

InitNames ==
  /\ ScreenIdle
  /\ q_rec \in {Dict("name" :> StrV(name)) : name \in UNION {NamesOfLen(n) : n \in 1..MaxNameLen}}
  /\ q_keys = << >>
  /\ q_out = NotRun

\* vehicle_name = self.vehicle["name"].replace(" ", "_").replace(".", "_").lower()
identify ==
  /\ ~q_out.ran
  /\ q_out' = [ran |-> TRUE, value |-> StrV(vehicle_name(q_rec))]
  /\ UNCHANGED <<nav, tbl, wrk, forms, crashed, stocked, ev, q_rec, q_keys, fetches, lst, prefs>>


SpecNames == InitNames /\ [][identify]_vars

\* C13: the identifier of every vehicle name holds no character that changes
\* the meaning of the query string, is the same each time it is computed, and
\* is left unchanged by a second normalization.
C13_identifier_url_safe ==
  q_out.ran =>
    /\ \A i \in 1..Len(q_out.value.s) :
         SubSeq(q_out.value.s, i, i) \notin {"&", "#", "?", "=", "/"}
    /\ q_out.value.s = vehicle_name(q_rec)
    /\ normalized(q_out.value.s) = q_out.value.s

-----------------------------------------------------------------------------
(* The add forms on their own, with more texts typed into their fields *)


NextSubmit ==
  \/ \E f \in Forms : show_add_form(f)
  \/ \E f \in Forms : form_back(f)
  \/ \E f \in Forms : \E name \in {"", " ", " Brakes "} :
        \E cost \in {"", " ", "FREE", "12.50", "1e3", "abc"} :
        submit(f, name, cost)
  \/ \E f \in Forms : on_submit_success(f)
  \/ \E f \in Forms : \E e \in Exceptions :
        on_submit_error(f, submit_error_message(f, e))

SpecSubmit == InitForms /\ [][NextSubmit]_vars

\* the service stores the body of the POST the form sent (with an id of its own
\* or without), the fetch returns it and on_*_loaded renders its row
fetch_posted(with_id) ==
  /\ ~crashed
  /\ ev.name = "submit"
  /\ \E req \in ev.sent :
       /\ q_rec' = Dict(IF with_id THEN ("id" :> StrV("7")) @@ req.body ELSE req.body)
       /\ q_out' = [ran |-> TRUE, value |-> render_row(form_table(ev.t), q_rec')]
  /\ q_out' # q_out
  /\ UNCHANGED <<nav, tbl, wrk, forms, crashed, stocked, ev, q_keys, fetches, lst, prefs>>

SpecRoundTrip ==
  InitForms /\ [][NextSubmit \/ \E with_id \in BOOLEAN : fetch_posted(with_id)]_vars

\* C14: in the form that checks the cost as a number (hidden costs), a submit
\* with the cost "FREE" and a name shows no warning and sends the request.
C14_free_is_accepted ==
  (/\ ev.name = "submit"
   /\ ev.t = "add_hidden_cost"
   /\ strip(ev.arg.name) # ""
   /\ strip(ev.arg.cost) = "FREE") =>
    ev.msg = NoMsg /\ ev.sent # {}

\* C15: a submit whose required field is empty or blank, or (hidden costs)
\* whose cost is empty or no number, shows a warning, starts no worker and
\* sends nothing; every other submit sends exactly one POST and shows nothing.
C15_validation_blocks_submit ==
  [][ev'.name = "submit" =>
       IF \/ strip(ev'.arg.name) = ""
          \/ /\ ev'.t = "add_hidden_cost"
             /\ strip(ev'.arg.cost) = "" \/ ~float_parses(strip(ev'.arg.cost))
       THEN /\ ev'.msg.kind = "warning"
            /\ ev'.sent = {}
            /\ UNCHANGED forms
       ELSE /\ ev'.msg = NoMsg
            /\ Cardinality(ev'.sent) = 1
            /\ \A r \in ev'.sent : r.method = "POST"
            /\ forms'[ev'.t].submitting = forms[ev'.t].submitting + 1]_vars

\* C15 witness: the hidden-cost form refused a cost that is no number
C15_witness ==
  /\ ev.name = "submit"
  /\ ev.t = "add_hidden_cost"
  /\ ev.arg = [name |-> " Brakes ", cost |-> "abc"]
  /\ ev.msg.text = "Cost must be a valid number"
  /\ ev.sent = {}
  /\ screen = "add_hidden_cost"

-----------------------------------------------------------------------------
(* One run of a worker on its own: the response it gets, the signals it emits *)


Signal(signal, items, message) ==
  [signal |-> signal, items |-> items, message |-> message]

\* the message of error.emit in the except branch of the worker
worker_error_message(w, e) ==
  CASE w \in Tables -> fetch_error_message(w, e)
    [] w = "vehicles" -> "Failed to fetch vehicles: " \o e
    [] w = "update" -> update_error_message(e)
    [] w = "delete" -> delete_error_message(e)
    [] OTHER -> submit_error_message(w, e)

\* the orders in which the keys of a mapping may come out
key_lists(m) ==
  {ks \in [1..Cardinality(DOMAIN m) -> DOMAIN m] :
     \A i, j \in DOMAIN ks : i # j => ks[i] # ks[j]}

\* VehicleFetchWorker.run emits response.json() as it is through
\* finished = pyqtSignal(list): a body that is no list is refused by emit
\* (TypeError, reported through error) or, for a mapping, converted to the
\* list of its keys, depending on the binding
vehicle_worker_signals(body) ==
  IF body.list THEN {<<Signal("finished", body.elems, "")>>}
  ELSE {<<Signal("error", << >>, "Error: argument 1 has unexpected type")>>}
         \cup (IF body.obj.d
               THEN {<<Signal("finished", [i \in DOMAIN ks |-> Scalar(StrV(ks[i]))], "")>> :
                       ks \in key_lists(body.obj.m)}
               ELSE {})

run_signals_mut_error_then_success(w, resp) ==
  IF resp.fails # ""
  THEN {<<Signal("error", << >>, worker_error_message(w, resp.fails)),
          Signal("success", << >>, "")>>}
  ELSE {<<Signal("success", << >>, "")>>}

\* run() of a worker: the sequences of signals it may emit
run_signals(w, resp) ==
  IF resp.fails # ""
  THEN {<<Signal("error", << >>, worker_error_message(w, resp.fails))>>}
  ELSE IF w \in Tables
  THEN {<<Signal("finished", fetch_worker_run(resp.body), "")>>}
  ELSE IF w = "vehicles" THEN vehicle_worker_signals(resp.body)
  ELSE {<<Signal("success", << >>, "")>>}

InitWorkers ==
  /\ ScreenIdle
  /\ q_rec \in   \* requests.* with raise_for_status: an exception, or a JSON body
       {[fails |-> "", body |-> b] :
          b \in UNION {Bodies(t) : t \in Tables} \cup {JList(<<VA, VB>>), JObj(VB)}}
         \cup {[fails |-> e, body |-> JList(<< >>)] : e \in Exceptions}
  /\ q_keys \in {<<w>> : w \in Tables \cup {"vehicles", "update", "delete"} \cup Forms}
  /\ q_out = NotRun

worker_run ==
  /\ ~q_out.ran
  /\ \E signals \in run_signals(q_keys[1], q_rec) :
       q_out' = [ran |-> TRUE, value |-> signals]
  /\ UNCHANGED <<nav, tbl, wrk, forms, crashed, stocked, ev, q_rec, q_keys, fetches, lst, prefs>>


SpecWorkers == InitWorkers /\ [][worker_run]_vars

-----------------------------------------------------------------------------
(* Vehicle selection screen: the list and its fetch *)

\* Refresh on the selection screen
load_vehicles ==
  /\ ~crashed
  /\ screen = "selection"
  /\ fetch_worker < MaxPending
  /\ vehicle_list' = <<ListItem("Loading vehicles...", None)>>
  /\ fetch_worker' = fetch_worker + 1
  /\ ev' = Ev("load_vehicles", "", "", NoMsg, {vehicle_list_request})
  /\ UNCHANGED <<nav, tbl, wrk, forms, crashed, stocked, q_rec, q_keys, fetches, q_out,
                 vehicles, prefs>>

\* vehicle.get("name", vehicle.get("id", "Unknown")) of a mapping, str(vehicle) otherwise
vehicle_text(vehicle) ==
  IF ~vehicle.d THEN StrV(str(vehicle.v))
  ELSE IF "name" \in DOMAIN vehicle.m THEN vehicle.m["name"]
  ELSE IF "id" \in DOMAIN vehicle.m THEN vehicle.m["id"]
  ELSE StrV("Unknown")

\* QListWidgetItem(text) takes a string only: the items added before the
\* first vehicle whose text is none raise
on_vehicles_loaded(loaded) ==
  LET bad == {i \in 1..Len(loaded) : vehicle_text(loaded[i]).t # "str"}
      n == IF bad = {} THEN Len(loaded)
           ELSE (CHOOSE i \in bad : \A j \in bad : i <= j) - 1
  IN /\ vehicles' = loaded
     /\ vehicle_list' =
          IF loaded = << >> THEN <<ListItem("No vehicles available", None)>>
          ELSE [i \in 1..n |-> ListItem(vehicle_text(loaded[i]).s, loaded[i])]
     /\ crashed' = (bad # {})
     /\ ev' = IF bad = {} THEN Quiet
              ELSE Ev("on_vehicles_loaded", "", "", MsgBox("exception", "", ""), {})

on_fetch_error(message) ==
  /\ vehicle_list' = <<ListItem("Error: " \o message, None)>>
  /\ ev' = Ev("on_fetch_error", "", message, show_error(message), {})
  /\ UNCHANGED <<vehicles, crashed>>

\* a VehicleFetchWorker ends and its signal reaches the selection screen
vehicle_fetch_done(resp) ==
  /\ ~crashed
  /\ fetch_worker > 0
  /\ fetch_worker' = fetch_worker - 1
  /\ \E signals \in run_signals("vehicles", resp) :
       IF signals[1].signal = "finished"
       THEN on_vehicles_loaded(signals[1].items)
       ELSE on_fetch_error(signals[1].message)
  /\ UNCHANGED <<nav, tbl, wrk, forms, stocked, q_rec, q_keys, fetches, q_out, prefs>>

(* The selection screen and the detail screen opened from it.  A detail fetch
   ends within its request timeout; the vehicle list request has none, so
   nothing makes its worker end. *)
NextFleet ==
  \/ load_vehicles
  \/ \E resp \in {[fails |-> "", body |-> b] :
                    b \in {JList(<<VA, VB>>), JList(<<VB>>), JList(<< >>),
                           JList(<<Dict("id" :> StrV("v3")), Scalar(StrV("truck"))>>)}}
                   \cup {[fails |-> e, body |-> JList(<< >>)] : e \in Exceptions} :
        vehicle_fetch_done(resp)
  \/ \E i \in 1..2 : on_vehicle_selected(i)
  \/ handle_next
  \/ show_vehicle_selection
  \/ \E t \in Tables : \E body \in FewAnswers(t) : fetch_finished(t, body)
  \/ \E t \in Tables : \E e \in Exceptions : fetch_failed(t, e)
  \/ \E r \in 1..1 : select_row(stocked, r)
  \/ delete_record(stocked, TRUE)
  \/ update_record(stocked)
  \/ \E e \in Exceptions : on_update_error(update_error_message(e))
  \/ \E e \in Exceptions : on_delete_error(delete_error_message(e))

SpecFleet ==
  /\ InitSelection
  /\ [][NextFleet]_vars
  /\ \A t \in Tables :
       WF_vars((\E body \in FewAnswers(t) : fetch_finished(t, body))
               \/ (\E e \in Exceptions : fetch_failed(t, e)))

\* C16: a fetch worker that got a JSON body delivers a list body as it is
\* and a body that is no list as the one-element list holding it.
C16_body_delivered_as_list ==
  (q_out.ran /\ q_keys[1] \in Tables \cup {"vehicles"} /\ q_rec.fails = "") =>
    q_out.value =
      <<Signal("finished",
               IF q_rec.body.list THEN q_rec.body.elems ELSE <<q_rec.body.obj>>,
               "")>>

-----------------------------------------------------------------------------

\* C17: the completion of the fetch of one table, whenever it comes relative
\* to the other two, leaves the rows, the stored sequence and the selection
\* of the other two tables as they were.
C17_completion_touches_own_table ==
  [][\A t \in Tables :
       pending'[t] < pending[t] =>
         \A u \in Tables \ {t} :
           /\ table'[u] = table[u]
           /\ data'[u] = data[u]
           /\ sel'[u] = sel[u]
           /\ selected'[u] = selected[u]
           /\ pending'[u] = pending[u]]_vars

\* C17 witness: the purchases arrived first and are shown, with a row of them
\* selected, while the maintenance fetch is still in flight and its table loading
C17_witness ==
  /\ TableState("purchases") = "populated"
  /\ pending["purchases"] = 0
  /\ sel["purchases"] = 1
  /\ pending["maintenance"] = 1
  /\ TableState("maintenance") = "loading"
  /\ ~data["maintenance"].has

-----------------------------------------------------------------------------

\* C19: a mutation started while an earlier one is in flight joins it: its one
\* request is sent, the earlier workers stay in flight ahead of it and the new
\* worker is the one started last (the one the screen's attribute refers to);
\* every worker in flight can deliver its outcome, each delivery ends that
\* worker alone, and each success starts its own reload of the three tables.
C19_mutations_in_flight_are_independent ==
  /\ [](~crashed =>
         \A i \in DOMAIN mutating :
           IF mutating[i] = "update"
           THEN ENABLED on_update_error(update_error_message("timed out"))
           ELSE ENABLED on_delete_error(delete_error_message("timed out")))
  /\ [][/\ (ev'.name \in {"update", "delete"} /\ ev'.sent # {}) =>
             /\ Cardinality(ev'.sent) = 1
             /\ mutating' = Append(mutating, ev'.name)
        /\ ev'.name \in {"on_update_success", "on_delete_success"} =>
             /\ Len(mutating') = Len(mutating) - 1
             /\ ev'.sent = load_all(current_vehicle)
             /\ \A t \in Tables : pending'[t] = pending[t] + 1
        /\ ev'.name \in {"on_update_error", "on_delete_error"} =>
             /\ Len(mutating') = Len(mutating) - 1
             /\ ev'.sent = {}]_vars

\* C19 witness: an update was started while an earlier update was in flight,
\* and the outcome of one of the two has been delivered since, with the other
\* still in flight
C19_witness ==
  /\ mutating = <<"update">>
  /\ ev.name = "on_update_success"
  /\ \A t \in Tables : pending[t] = 1
  /\ ~crashed

-----------------------------------------------------------------------------

\* C20: nothing is sent on its own after a failure.  Every step that sends a
\* request or starts a worker is a handler of the user (refresh, update,
\* delete, submit), a success handler reloading the tables, or the activation
\* of the detail screen; a step that delivers the failure of a fetch, of an
\* update, of a delete or of a submit sends nothing and starts no worker.
C20_no_automatic_retry ==
  [][LET started ==
           \/ \E t \in Tables : pending'[t] > pending[t]
           \/ Len(mutating') > Len(mutating)
           \/ \E f \in Forms : forms'[f].submitting > forms[f].submitting
         failure ==
           \/ ev'.name \in {"on_update_error", "on_delete_error", "on_submit_error"}
           \/ \E t \in Tables : pending'[t] < pending[t] /\ TableState(t)' = "error"
     IN /\ (started \/ ev'.sent # {}) =>
             /\ ev'.sent # {}
             /\ ev'.name \in {"refresh_data", "update", "delete", "submit",
                              "on_update_success", "on_delete_success",
                              "on_submit_success", "form_back", "handle_next"}
        /\ failure => ~started /\ ev'.sent = {}]_vars

\* C20 witness: the maintenance fetch failed, its table shows the error, and
\* no fetch, mutation or submit is in flight afterwards
C20_witness ==
  /\ TableState("maintenance") = "error"
  /\ \A t \in Tables : pending[t] = 0
  /\ mutating = << >>
  /\ submitting_total = 0
  /\ ev = Quiet
  /\ screen = "details"

-----------------------------------------------------------------------------
(* Fetches of one table that overlap: every load_* starts a worker of its own,
   connected to the same slots, and nothing orders their signals.  The workers
   carry the number they were started with, and the answer of the one started
   last is kept *)

InitOverlap ==
  /\ selected_vehicle = VA
  /\ current_vehicle = VA
  /\ details = TRUE
  /\ screen = "details"
  /\ table = [t \in Tables |-> info_row(<< >>, LoadingText, t)]
  /\ data = [t \in Tables |-> NoData]
  /\ sel = [t \in Tables |-> 0]
  /\ selected = [t \in Tables |-> None]
  /\ tracking_type = "Mileage"
  /\ tracking_header = "Tracking"
  /\ pending = [t \in Tables |-> 1]
  /\ mutating = << >>
  /\ forms = [f \in Forms |-> NoForm]
  /\ crashed = FALSE
  /\ stocked = "maintenance"
  /\ ev = Ev("handle_next", "", "", NoMsg, load_all(VA))
  /\ q_rec = None
  /\ q_keys = << >>
  /\ q_out = NotRun
  /\ vehicle_list = << >>
  /\ vehicles = << >>
  /\ fetch_worker = 0
  /\ settings_file = [kind |-> "absent"]
  /\ settings = Dict(<< >>)
  /\ dark_mode_checkbox = FALSE
  /\ current_theme = "light"
  /\ fetches = [t \in Tables |-> [started |-> 1, flying |-> <<1>>, answer |-> NotRun]]

\* Refresh on the detail screen, pressed whether or not fetches are in flight
refresh_overlapping ==
  /\ ~crashed
  /\ screen = "details"
  /\ \A t \in Tables : fetches[t].started < MaxFetches
  /\ table' = [t \in Tables |-> info_row(table[t], LoadingText, t)]
  /\ sel' = [t \in Tables |-> selection_after(sel[t], 1)]
  /\ selected' = [t \in Tables |-> selected_after(t, 1)]
  /\ pending' = [t \in Tables |-> pending[t] + 1]
  /\ fetches' = [t \in Tables |->
                   [started |-> fetches[t].started + 1,
                    flying |-> Append(fetches[t].flying, fetches[t].started + 1),
                    answer |-> NotRun]]
  /\ ev' = Ev("refresh_data", "", "", NoMsg, load_all(current_vehicle))
  /\ UNCHANGED <<nav, data, tracking_type, tracking_header, mutating, forms, crashed,
                 stocked, q_rec, q_keys, q_out, lst, prefs>>

\* one of the fetch workers of table t in flight ends, with finished(list) or
\* with error(message), and its slot runs
fetch_delivered(t, i, resp) ==
  /\ ~crashed
  /\ details
  /\ i \in DOMAIN fetches[t].flying
  /\ pending' = [pending EXCEPT ![t] = @ - 1]
  /\ IF resp.fails = ""
     THEN on_loaded(t, fetch_worker_run(resp.body))
     ELSE on_error(t, fetch_error_message(t, resp.fails))
  /\ fetches' = [fetches EXCEPT
                   ![t].flying = SubSeq(@, 1, i - 1) \o SubSeq(@, i + 1, Len(@)),
                   ![t].answer = IF fetches[t].flying[i] = fetches[t].started
                                 THEN [ran |-> TRUE, value |-> resp] ELSE @]
  /\ ev' = Quiet
  /\ UNCHANGED <<nav, mutating, forms, crashed, stocked, q_rec, q_keys, q_out, lst, prefs>>

SpecOverlap ==
  InitOverlap /\
  [][\/ refresh_overlapping
     \/ \E t \in Tables : \E i \in 1..MaxFetches : \E body \in FewAnswers(t) :
          \E e \in Exceptions \cup {""} :
            fetch_delivered(t, i, [fails |-> e, body |-> body])]_vars

-----------------------------------------------------------------------------
(* Settings: settings.json, the settings screen and the theme *)

\* load_initial_settings / SettingsScreen.load_settings: json.load(f) when the
\* file exists and parses; {} when it is absent or reading it raises
load_settings ==
  IF settings_file.kind = "json" THEN settings_file.value ELSE Dict(<< >>)

\* settings.get("dark_mode", False) of a mapping
get_dark_mode(s) == IF "dark_mode" \in DOMAIN s.m THEN s.m["dark_mode"] ELSE FALSE

\* ThemeManager.apply_theme
apply_theme(is_dark_mode) == IF is_dark_mode THEN "dark" ELSE "light"

\* save_settings: the file holds the settings when the write succeeds; open()
\* refusing leaves it as it was, a write that breaks off leaves no JSON
save_settings(s, outcome) ==
  CASE outcome = "written" -> [kind |-> "json", value |-> s]
    [] outcome = "refused" -> settings_file
    [] OTHER -> [kind |-> "malformed"]

\* main(), then MainWindow.__init__ with load_initial_theme; main calls
\* settings.get outside any try
main ==
  /\ screen = "start"
  /\ IF load_settings.d
     THEN /\ current_theme' = apply_theme(get_dark_mode(load_settings))
          /\ screen' = "menu"
          /\ ev' = Ev("main", "", "", NoMsg, {})
          /\ UNCHANGED crashed
     ELSE /\ crashed' = TRUE
          /\ ev' = Ev("main", "", "", MsgBox("exception", "", ""), {})
          /\ UNCHANGED <<screen, current_theme>>
  /\ UNCHANGED <<selected_vehicle, current_vehicle, details, tbl, wrk, forms,
                 stocked, q_rec, q_keys, fetches, q_out, lst, settings_file, settings,
                 dark_mode_checkbox>>

\* Settings on the main menu: a new SettingsScreen loads the file and sets its checkbox
show_settings_screen ==
  /\ ~crashed
  /\ screen = "menu"
  /\ settings' = load_settings
  /\ IF load_settings.d
     THEN /\ dark_mode_checkbox' = get_dark_mode(load_settings)
          /\ screen' = "settings"
          /\ ev' = Ev("show_settings_screen", "", "", NoMsg, {})
          /\ UNCHANGED crashed
     ELSE /\ crashed' = TRUE
          /\ ev' = Ev("show_settings_screen", "", "", MsgBox("exception", "", ""), {})
          /\ UNCHANGED <<screen, dark_mode_checkbox>>
  /\ UNCHANGED <<selected_vehicle, current_vehicle, details, tbl, wrk, forms,
                 stocked, q_rec, q_keys, fetches, q_out, lst, settings_file, current_theme>>

reset_settings_mut_keeps_theme(outcome) ==
  /\ ~crashed
  /\ screen = "settings"
  /\ settings' = Dict("dark_mode" :> FALSE)
  /\ settings_file' = save_settings(settings', outcome)
  /\ dark_mode_checkbox' = FALSE
  /\ ev' = Ev("reset_settings", "", outcome, NoMsg, {})
  /\ UNCHANGED <<nav, tbl, wrk, forms, crashed, stocked, q_rec, q_keys, fetches, q_out, lst,
                 current_theme>>

\* the user clicks the checkbox: SettingsScreen.on_dark_mode_changed saves and
\* emits, MainWindow.on_dark_mode_changed applies the theme
on_dark_mode_changed(outcome) ==
  /\ ~crashed
  /\ screen = "settings"
  /\ dark_mode_checkbox' = ~dark_mode_checkbox
  /\ settings' = Dict(("dark_mode" :> dark_mode_checkbox') @@ settings.m)
  /\ settings_file' = save_settings(settings', outcome)
  /\ current_theme' = apply_theme(dark_mode_checkbox')
  /\ ev' = Ev("on_dark_mode_changed", "", outcome, NoMsg, {})
  /\ UNCHANGED <<nav, tbl, wrk, forms, crashed, stocked, q_rec, q_keys, fetches, q_out, lst>>

\* Reset to Defaults: saves, unchecks the box (which saves and emits again
\* when it was checked) and emits False
reset_settings(outcome) ==
  /\ ~crashed
  /\ screen = "settings"
  /\ settings' = Dict("dark_mode" :> FALSE)
  /\ settings_file' = save_settings(settings', outcome)
  /\ dark_mode_checkbox' = FALSE
  /\ current_theme' = apply_theme(FALSE)
  /\ ev' = Ev("reset_settings", "", outcome, NoMsg, {})
  /\ UNCHANGED <<nav, tbl, wrk, forms, crashed, stocked, q_rec, q_keys, fetches, q_out, lst>>

\* Back on the settings screen
go_back ==
  /\ ~crashed
  /\ screen = "settings"
  /\ screen' = "menu"
  /\ ev' = Ev("go_back", "", "", NoMsg, {})
  /\ UNCHANGED <<selected_vehicle, current_vehicle, details, tbl, wrk, forms, crashed,
                 qvars>>

(* The application from its start, with a settings file in any condition *)
InitSettings ==
  /\ screen = "start"
  /\ selected_vehicle = None
  /\ current_vehicle = None
  /\ details = FALSE
  /\ table = [t \in Tables |-> << >>]
  /\ data = [t \in Tables |-> NoData]
  /\ sel = [t \in Tables |-> 0]
  /\ selected = [t \in Tables |-> None]
  /\ tracking_type = "Mileage"
  /\ tracking_header = "Tracking"
  /\ pending = [t \in Tables |-> 0]
  /\ mutating = << >>
  /\ forms = [f \in Forms |-> NoForm]
  /\ crashed = FALSE
  /\ stocked = "maintenance"
  /\ ev = Quiet
  /\ q_rec = None
  /\ q_keys = << >>
  /\ q_out = NotRun
  /\ vehicle_list = << >>
  /\ vehicles = << >>
  /\ fetch_worker = 0
  /\ settings_file \in
       {[kind |-> "absent"], [kind |-> "unreadable"], [kind |-> "malformed"]}
         \cup {[kind |-> "json", value |-> v] :
                 v \in {S5, Dict(<< >>), Dict("dark_mode" :> TRUE),
                        Dict("dark_mode" :> FALSE),
                        Dict(("dark_mode" :> TRUE) @@ ("language" :> FALSE))}}
  /\ settings = Dict(<< >>)
  /\ dark_mode_checkbox = FALSE
  /\ current_theme = "light"
  /\ fetches = << >>

NextSettings ==
  \/ main
  \/ show_settings_screen
  \/ \E outcome \in {"written", "refused", "cut short"} : on_dark_mode_changed(outcome)
  \/ \E outcome \in {"written", "refused", "cut short"} : reset_settings(outcome)
  \/ go_back

SpecSettings == InitSettings /\ [][NextSettings]_vars

-----------------------------------------------------------------------------

\* C21: every list that shows its loading text eventually shows records, its
\* empty text or an error (or the process has ended): the vehicle list, and
\* each of the three tables of the detail screen.
C21_loading_settles ==
  /\ (vehicle_list[1].text = "Loading vehicles...")
       ~> (crashed \/ vehicle_list[1].text # "Loading vehicles...")
  /\ \A t \in Tables :
       (details /\ TableState(t) = "loading")
         ~> (crashed \/ TableState(t) \in {"populated", "empty", "error"})

-----------------------------------------------------------------------------

\* C28: Next on any entry picked from the vehicle list builds the detail
\* screen and leaves its three fetches in flight without raising, and an
\* update or a delete on that screen does not raise either.
C28_every_entry_opens ==
  /\ ev.name \in {"handle_next", "update", "delete"} =>
       ev.msg.kind # "exception" /\ ~crashed
  /\ ev.name = "handle_next" =>
       /\ screen = "details"
       /\ current_vehicle = selected_vehicle
       /\ \A t \in Tables : pending[t] >= 1

\* C29: Next opens a vehicle only when one is selected, and once the last
\* refresh of the vehicle list has ended (with vehicles, with none or with an
\* error) the vehicle it opens is an entry of the list as that refresh left it.
C29_next_opens_listed_vehicle ==
  [][ev'.name = "handle_next" =>
       /\ item_truthy(selected_vehicle)
       /\ current_vehicle' = selected_vehicle
       /\ fetch_worker = 0 =>
            \E i \in DOMAIN vehicle_list : vehicle_list[i].data = current_vehicle']_vars


\* C22: the theme applied at startup is the persisted dark_mode (light when
\* there is no file); after a toggle or a Reset to Defaults whose write
\* succeeded, the file's dark_mode, the checkbox and the applied theme agree,
\* and opening or leaving the settings screen keeps them in agreement
C22_file_checkbox_theme_agree ==
  [][LET persisted(file) == file.kind = "json" /\ get_dark_mode(file.value)
         agree(file, box, theme, scr) ==
           /\ theme = apply_theme(persisted(file))
           /\ scr = "settings" => box = persisted(file)
         now == agree(settings_file, dark_mode_checkbox, current_theme, screen)
         after == agree(settings_file', dark_mode_checkbox', current_theme', screen')
     IN  /\ ev'.name = "main" /\ ~crashed' => after
         /\ ev'.name \in {"on_dark_mode_changed", "reset_settings"} /\ ev'.arg = "written"
              => after /\ settings_file'.value = settings'
         /\ ev'.name \in {"show_settings_screen", "go_back"} /\ now => after]_vars

C22_witness ==
  /\ ev.name = "reset_settings"
  /\ ev.arg = "written"
  /\ settings_file = [kind |-> "json", value |-> Dict("dark_mode" :> FALSE)]
  /\ current_theme = "light"
  /\ ~dark_mode_checkbox

\* C23: a settings file that is missing, unreadable or malformed never stops
\* the application and gives the defaults (dark_mode false, light theme); a
\* failed write is swallowed and the toggled theme is applied all the same
C23_settings_failures_are_harmless ==
  [][LET readable == settings_file.kind = "json" /\ settings_file.value.d
     IN  /\ ev'.name = "main" /\ ~readable => ~crashed' /\ current_theme' = "light"
         /\ ev'.name = "show_settings_screen" /\ ~readable
              => ~crashed' /\ settings' = Dict(<< >>) /\ ~dark_mode_checkbox'
         /\ ev'.name = "on_dark_mode_changed" /\ ev'.arg # "written"
              => ~crashed' /\ current_theme' = apply_theme(dark_mode_checkbox')]_vars

\* C30: the tracking cell of a maintenance record shows the first hour alias
\* that is present with a non-null value, 0 included, and the first non-null
\* mileage alias only when no hour alias has a non-null value (empty when
\* neither has one)
C30_hours_before_mileage ==
  q_out.ran =>
    LET rec == as_rec(q_rec)
        has_hours == \E i \in DOMAIN HourKeys :
                       HourKeys[i] \in DOMAIN rec /\ rec[HourKeys[i]] # NullV
    IN q_out.value = str(get_any(rec, IF has_hours THEN HourKeys ELSE MileageKeys, Empty))

\* C25: the payload of an update holds the text of the cells of the selected
\* row under the canonical field names, the tracking cell under hours exactly
\* when the tracking type is "Hours" and under mileage otherwise; for a
\* populated table that text is the stringified normalized value of the
\* stored record of that row
C25_payload_from_cells ==
  ev.name = "update" /\ ev.sent # {} =>
    \A req \in ev.sent :
      LET t == ev.t
          row == table[t][sel[t]]
          tracking == IF tracking_type = "Hours" THEN "hours" ELSE "mileage"
          names == CASE t = "maintenance" ->
                          <<"id", "job", "date_started", "date_completed", tracking,
                            "cost", "notes">>
                     [] t = "purchases" ->
                          <<"id", "item", "date_purchased", "installed", "cost", "store">>
                     [] OTHER -> <<"id", "name", "amount", "description", "date">>
      IN /\ req.method = "PUT"
         /\ DOMAIN req.body = {names[c] : c \in DOMAIN names}
         /\ \A c \in DOMAIN names : req.body[names[c]] = StrV(row[c])
         /\ TableState(t) = "populated" => row = render_row(t, data[t].items[sel[t]])

C25_witness ==
  /\ ev.name = "update"
  /\ ev.t = "maintenance"
  /\ ev.sent # {}
  /\ TableState("maintenance") = "populated"
  /\ tracking_type = "Mileage"
  /\ sel["maintenance"] = 1

\* C26: an update that is sent carries in its URL the id of the stored raw
\* record at the selected row, which is the id a delete of the selected
\* record would carry
C26_update_carries_stored_id ==
  ev.name = "update" /\ ev.sent # {} =>
    \A req \in ev.sent :
      LET record == data[ev.t].items[sel[ev.t]]
      IN /\ req.query[2] = <<"id", str(record.m["id"])>>
         /\ selected[ev.t] = record

C27_last_issued_fetch_wins ==
  \A t \in Tables :
    fetches[t].started >= 2 /\ fetches[t].flying = << >> =>
      LET resp == fetches[t].answer.value
          items == fetch_worker_run(resp.body)
      IN IF resp.fails # ""
         THEN table[t][1][1] = "Error: " \o fetch_error_message(t, resp.fails)
         ELSE IF items = << >>
         THEN TableState(t) = "empty"
         ELSE table[t] = render_rows(t, items) /\ data[t].items = items

====
